---- MODULE Spec2Model ----
(***************************************************************************)
(* MediLock WebRTC signaling relay (src/socket/signaling.js).              *)
(*                                                                         *)
(* The relay keeps two maps, rooms and userSockets, and uses the rooms of  *)
(* the socket.io in-memory adapter for delivery.  Node runs every handler  *)
(* to completion (the async join-room handler holds no await), so each     *)
(* handler is one atomic action.  Socket ids and room ids are strings of   *)
(* one namespace in the adapter (every socket sits in the adapter room     *)
(* named by its own id); both are modelled by integers of one id space:    *)
(* ids 1..NumConns are socket ids, id 0 is a room name that is no socket   *)
(* id, and a client may supply any of 0..MaxRoomId as a roomId.            *)
(*                                                                         *)
(* Left out: timestamps (createdAt, joinedAt, timestamp) and the fields a  *)
(* relay handler copies from the message unread (message, encrypted, type, *)
(* audioEnabled, videoEnabled); the offer / answer / candidate field is    *)
(* called payload in all three events.  A message sent without any payload *)
(* is modelled for join-room only, whose try / catch answers it; in the    *)
(* other handlers the destructuring throws outside any try.                *)
(***************************************************************************)
EXTENDS Integers, FiniteSets, Bags, TLC

\* ---------------------------------------------------------------- bounds
NumConns == 3
MaxRoomId == 1
NumUsers == 2

Conns == 1..NumConns
RoomIds == 0..MaxRoomId
\* the room ids that are no socket's id
RoomNames == RoomIds \ Conns
\* one more room name, past the socket ids
OtherRoom == NumConns + 1
AllRoomIds == RoomIds \cup {OtherRoom}
Users == 1..NumUsers
NumPayloads == 1
\* the opaque offer / answer / candidate payloads: payload p claims to come
\* from socket p
Payloads == 1..NumPayloads

\* a field the client left out, or a property read through ?. of undefined
Undefined == -1
\* the keys rooms can have: a join-room without roomId uses the key undefined
RoomKeys == AllRoomIds \cup {Undefined}
\* a message sent without a payload
NoPayload == [none |-> TRUE]

VARIABLES
  status,       \* socket -> "idle" | "connected" | "closed"
  userSockets,  \* Map socket.id -> {userId, userName, role, roomId}
  rooms,        \* Map roomId -> {participants, encryption}
  sids,         \* adapter: socket -> the adapter rooms it is in
  out,          \* bag of the messages the last handler delivered
  last,         \* the event the last handler processed
  pre,          \* history: rooms, userSockets and sids as that handler found them
  joined,       \* history: roomId -> the sockets that sent join-room for it and
                \* have since neither sent leave-room for it nor disconnected
  everJoined    \* history: the sockets that have sent a join-room

vars == <<status, userSockets, rooms, sids, out, last, pre, joined, everJoined>>

Snapshot == [rooms |-> rooms, userSockets |-> userSockets, sids |-> sids]

\* ------------------------------------------------------------ Map helpers
MapSet(m, k, v) == [x \in DOMAIN m \cup {k} |-> IF x = k THEN v ELSE m[x]]
MapDelete(m, k) == [x \in DOMAIN m \ {k} |-> m[x]]
EmptyMap == [x \in {} |-> 0]

\* the role a client asserts as user u
RoleOf(u) == IF u % 2 = 1 THEN "doctor" ELSE "patient"

Encryption == [enabled |-> TRUE, algorithm |-> "AES-256-GCM", keyExchange |-> "ECDH"]

\* ------------------------------------------------------- socket.io delivery
Msg(to, event, data) == [to |-> to, event |-> event, data |-> data]

\* the sockets in adapter room r, under adapter state sd
InRoom(sd, r) == {c \in Conns : r \in sd[c]}

\* socket.emit(event, data)
SocketEmit(s, event, data) == SetToBag({Msg(s, event, data)})

\* socket.to(room).emit(event, data): the room, except the socket itself
SocketToRecipients(sd, s, r) == InRoom(sd, r) \ {s}
SocketTo(sd, s, r, event, data) ==
  SetToBag({Msg(c, event, data) : c \in SocketToRecipients(sd, s, r)})

\* io.to(room).emit / io.in(room).emit: every socket of the room
IoToRecipients(sd, r) == InRoom(sd, r)
IoTo(sd, r, event, data) ==
  SetToBag({Msg(c, event, data) : c \in IoToRecipients(sd, r)})

\* -------------------------------------------------------------------- Init
Init ==
  /\ status = [c \in Conns |-> "idle"]
  /\ userSockets = EmptyMap
  /\ rooms = EmptyMap
  /\ sids = [c \in Conns |-> {}]
  /\ out = EmptyBag
  /\ last = [event |-> "init", socket |-> 0, data |-> NoPayload]
  /\ pre = Snapshot
  /\ joined = [r \in RoomKeys |-> {}]
  /\ everJoined = {}

\* io.on('connection'): a new socket; socket.io puts it in the room of its id
Connection(s) ==
  /\ status[s] = "idle"
  /\ status' = [status EXCEPT ![s] = "connected"]
  /\ sids' = [sids EXCEPT ![s] = {s}]
  /\ out' = EmptyBag
  /\ last' = [event |-> "connection", socket |-> s, data |-> NoPayload]
  /\ pre' = Snapshot
  /\ UNCHANGED <<userSockets, rooms, joined, everJoined>>

\* socket.on('authenticate')
AuthenticatedInfo(data) ==
  [userId |-> data.userId, userName |-> data.userName, role |-> data.role,
   roomId |-> data.roomId]

\* mutant: a socket that has a registry entry is turned away
AuthenticateOnce(s, data) ==
  /\ status[s] = "connected"
  /\ userSockets' = IF s \in DOMAIN userSockets THEN userSockets
                    ELSE MapSet(userSockets, s, AuthenticatedInfo(data))
  /\ out' = IF s \in DOMAIN userSockets
            THEN SocketEmit(s, "error", [message |-> "Already authenticated"])
            ELSE SocketEmit(s, "authenticated", [success |-> TRUE])
  /\ last' = [event |-> "authenticate", socket |-> s, data |-> data]
  /\ pre' = Snapshot
  /\ UNCHANGED <<status, rooms, sids, joined, everJoined>>

Authenticate(s, data) ==
  /\ status[s] = "connected"
  /\ userSockets' = MapSet(userSockets, s, AuthenticatedInfo(data))
  /\ out' = SocketEmit(s, "authenticated", [success |-> TRUE])
  /\ last' = [event |-> "authenticate", socket |-> s, data |-> data]
  /\ pre' = Snapshot
  /\ UNCHANGED <<status, rooms, sids, joined, everJoined>>

\* the authenticate messages of users U; the clients send no roomId, the
\* handler reads one
AuthData(R, U) ==
  {[userId |-> u, userName |-> u, role |-> RoleOf(u), roomId |-> r] :
     u \in U, r \in R \cup {Undefined}}

\* mutant: the merge is the other way round, { userId, ..., ...existingInfo }
JoinedInfoExistingWins(us, s, data) ==
  LET fresh == [userId |-> data.userId, userName |-> data.userName,
                role |-> data.role, roomId |-> data.roomId]
  IN  IF s \in DOMAIN us
      THEN [k \in DOMAIN us[s] \cup DOMAIN fresh |->
              IF k \in DOMAIN us[s] THEN us[s][k] ELSE fresh[k]]
      ELSE fresh

\* socket.on('join-room'): the registry entry after the merge
\* { ...existingInfo, userId, userName, role, roomId }
JoinedInfo(us, s, data) ==
  LET fresh == [userId |-> data.userId, userName |-> data.userName,
                role |-> data.role, roomId |-> data.roomId]
  IN  IF s \in DOMAIN us
      THEN [k \in DOMAIN us[s] \cup DOMAIN fresh |->
              IF k \in DOMAIN fresh THEN fresh[k] ELSE us[s][k]]
      ELSE fresh

\* mutant: the room is set up anew by every join
RoomsWithNewRoom(rm, roomId) ==
  MapSet(rm, roomId, [participants |-> EmptyMap, encryption |-> Encryption])

\* rooms after "Initialize room if not exists"
RoomsWithRoom(rm, roomId) ==
  IF roomId \in DOMAIN rm THEN rm
  ELSE MapSet(rm, roomId, [participants |-> EmptyMap, encryption |-> Encryption])

\* the member record room.participants.set stores (joinedAt left out)
Participant(s, data) ==
  [socketId |-> s, userId |-> data.userId, userName |-> data.userName,
   role |-> data.role]

\* mutant: the join of a socket that is a participant already sets the room
\* up anew
RoomsAfterJoinAnew(rm, s, data) ==
  LET init == RoomsWithRoom(rm, data.roomId)
      room == init[data.roomId]
      kept == IF s \in DOMAIN room.participants THEN EmptyMap
              ELSE room.participants
  IN  MapSet(init, data.roomId,
             [room EXCEPT !.participants = MapSet(kept, s, Participant(s, data))])

\* rooms after room.participants.set(socket.id, ...)
RoomsAfterJoin(rm, s, data) ==
  LET init == RoomsWithRoom(rm, data.roomId)
      room == init[data.roomId]
  IN  MapSet(init, data.roomId,
             [room EXCEPT !.participants = MapSet(@, s, Participant(s, data))])

\* adapter after socket.join(roomId)
SidsAfterJoin(sd, s, roomId) == [sd EXCEPT ![s] = @ \cup {roomId}]

\* mutant: the participants are not filtered
AllParticipants(room, s) ==
  {room.participants[k] : k \in DOMAIN room.participants}

\* Array.from(room.participants.values()).filter(p => p.socketId !== socket.id)
OtherParticipants(room, s) ==
  {room.participants[k] : k \in {x \in DOMAIN room.participants :
                                   room.participants[x].socketId # s}}

\* mutant: the notification names the asserted user, not the socket
UserJoinedDataByUser(s, data) ==
  [socketId |-> data.userId, userId |-> data.userId, userName |-> data.userName,
   role |-> data.role]

UserJoinedData(s, data) ==
  [socketId |-> s, userId |-> data.userId, userName |-> data.userName,
   role |-> data.role]

RoomJoinedData(room, s, roomId) ==
  [roomId |-> roomId, participants |-> OtherParticipants(room, s),
   encryption |-> room.encryption]

JoinOut(rm, sd, s, data) ==
  SocketTo(sd, s, data.roomId, "user-joined", UserJoinedData(s, data))
  (+) SocketEmit(s, "room-joined", RoomJoinedData(rm[data.roomId], s, data.roomId))

\* the catch block's reply
JoinFailed == [message |-> "Failed to join room"]

\* Destructuring a payload that is not there throws before anything is
\* written, and the catch block answers; a payload with fields left out
\* destructures to undefined values and the handler goes on.
JoinRoom(s, data) ==
  /\ status[s] = "connected"
  /\ IF data = NoPayload
     THEN /\ out' = SocketEmit(s, "error", JoinFailed)
          /\ UNCHANGED <<userSockets, sids, rooms, joined, everJoined>>
     ELSE /\ userSockets' = MapSet(userSockets, s, JoinedInfo(userSockets, s, data))
          /\ sids' = SidsAfterJoin(sids, s, data.roomId)
          /\ rooms' = RoomsAfterJoin(rooms, s, data)
          /\ out' = JoinOut(rooms', sids', s, data)
          /\ joined' = [joined EXCEPT ![data.roomId] = @ \cup {s}]
          /\ everJoined' = everJoined \cup {s}
  /\ last' = [event |-> "join-room", socket |-> s, data |-> data]
  /\ pre' = Snapshot
  /\ UNCHANGED status

\* the join-room messages of users U for the rooms R
JoinData(R, U) ==
  {[roomId |-> r, userId |-> u, userName |-> u, role |-> RoleOf(u)] :
     r \in R, u \in U}

\* handleLeaveRoom(socket, roomId) run on rooms rm, registry us and adapter sd:
\* what it leaves in rooms and in the adapter, and what it delivers
UserLeftData(us, s) ==
  IF s \in DOMAIN us
  THEN [socketId |-> s, userId |-> us[s].userId, userName |-> us[s].userName]
  ELSE [socketId |-> s, userId |-> Undefined, userName |-> Undefined]

\* mutant: the empty room is not cleaned up
RoomsAfterLeaveKeepEmpty(rm, s, roomId) ==
  IF roomId \notin DOMAIN rm THEN rm
  ELSE MapSet(rm, roomId,
              [rm[roomId] EXCEPT !.participants = MapDelete(@, s)])

RoomsAfterLeave(rm, s, roomId) ==
  IF roomId \notin DOMAIN rm THEN rm
  ELSE LET left == MapDelete(rm[roomId].participants, s)
       IN  IF DOMAIN left = {}
           THEN MapDelete(rm, roomId)
           ELSE MapSet(rm, roomId, [rm[roomId] EXCEPT !.participants = left])

SidsAfterLeave(rm, sd, s, roomId) ==
  IF roomId \notin DOMAIN rm THEN sd
  ELSE [sd EXCEPT ![s] = @ \ {roomId}]

LeaveOut(rm, us, sd, s, roomId) ==
  IF roomId \notin DOMAIN rm THEN EmptyBag
  ELSE SocketTo(SidsAfterLeave(rm, sd, s, roomId), s, roomId, "user-left",
                UserLeftData(us, s))

\* socket.on('leave-room')
LeaveRoom(s, roomId) ==
  /\ status[s] = "connected"
  /\ rooms' = RoomsAfterLeave(rooms, s, roomId)
  /\ sids' = SidsAfterLeave(rooms, sids, s, roomId)
  /\ out' = LeaveOut(rooms, userSockets, sids, s, roomId)
  /\ last' = [event |-> "leave-room", socket |-> s, data |-> [roomId |-> roomId]]
  /\ pre' = Snapshot
  /\ joined' = [joined EXCEPT ![roomId] = @ \ {s}]
  /\ UNCHANGED <<status, userSockets, everJoined>>

\* socket.on('disconnect').  socket.io has taken the socket out of every
\* adapter room before it emits 'disconnect'.
SidsOnClose(sd, s) == [sd EXCEPT ![s] = {}]

\* userInfo && userInfo.roomId
HasRecordedRoom(us, s) == s \in DOMAIN us /\ us[s].roomId # Undefined

RoomsAfterDisconnect(rm, us, s) ==
  IF HasRecordedRoom(us, s) THEN RoomsAfterLeave(rm, s, us[s].roomId) ELSE rm

\* mutant: a disconnect is not announced
DisconnectOutSilent(rm, us, sd, s) == EmptyBag

DisconnectOut(rm, us, sd, s) ==
  IF HasRecordedRoom(us, s)
  THEN LeaveOut(rm, us, SidsOnClose(sd, s), s, us[s].roomId)
  ELSE EmptyBag

Disconnect(s) ==
  /\ status[s] = "connected"
  /\ status' = [status EXCEPT ![s] = "closed"]
  /\ sids' = SidsOnClose(sids, s)
  /\ rooms' = RoomsAfterDisconnect(rooms, userSockets, s)
  /\ out' = DisconnectOut(rooms, userSockets, sids, s)
  /\ userSockets' = MapDelete(userSockets, s)
  /\ last' = [event |-> "disconnect", socket |-> s, data |-> NoPayload]
  /\ pre' = Snapshot
  /\ joined' = [r \in RoomKeys |-> joined[r] \ {s}]
  /\ UNCHANGED everJoined

\* socket.on('offer' | 'answer' | 'ice-candidate'): the three handlers differ
\* in the event name and in the name of the payload field only
RoomNotFound == [message |-> "Room not found"]
NotAuthenticated == [message |-> "Not authenticated"]

\* mutant: the sender tag is taken from the payload
P2PDataFromPayload(s, data) ==
  [socketId |-> data.payload, payload |-> data.payload, roomId |-> data.roomId]

\* the forwarded message: tagged with socket.id, payload and roomId copied
P2PData(s, data) == [socketId |-> s, payload |-> data.payload, roomId |-> data.roomId]

\* mutant: the room is not looked up before forwarding
P2POutUnchecked(rm, sd, s, event, data) ==
  IoTo(sd, data.targetSocketId, event, P2PData(s, data))

P2POut(rm, sd, s, event, data) ==
  IF data.roomId \notin DOMAIN rm
  THEN SocketEmit(s, "error", RoomNotFound)
  ELSE IoTo(sd, data.targetSocketId, event, P2PData(s, data))

P2P(s, event, data) ==
  /\ status[s] = "connected"
  /\ out' = P2POut(rooms, sids, s, event, data)
  /\ last' = [event |-> event, socket |-> s, data |-> data]
  /\ pre' = Snapshot
  /\ UNCHANGED <<status, userSockets, rooms, sids, joined, everJoined>>

Offer(s, data) == P2P(s, "offer", data)
Answer(s, data) == P2P(s, "answer", data)
IceCandidate(s, data) == P2P(s, "ice-candidate", data)

\* targetSocketId is any id a client can write down
P2PInputs(C, R) ==
  {[roomId |-> r, payload |-> p, targetSocketId |-> t] :
     r \in R, p \in Payloads, t \in C \cup R}

\* socket.on('chat-message' | 'room-message'): io.in(roomId).emit
ToAllData(us, s, event) ==
  IF event = "chat-message"
  THEN [socketId |-> s, userId |-> us[s].userId, userName |-> us[s].userName]
  ELSE [socketId |-> s, userId |-> us[s].userId, userName |-> us[s].userName,
        role |-> us[s].role]

\* mutant: the error goes to the room the message named
ToAllOutErrorToRoom(us, sd, s, event, roomId) ==
  IF s \notin DOMAIN us
  THEN IoTo(sd, roomId, "error", NotAuthenticated)
  ELSE IoTo(sd, roomId, event, ToAllData(us, s, event))

ToAllOut(us, sd, s, event, roomId) ==
  IF s \notin DOMAIN us
  THEN SocketEmit(s, "error", NotAuthenticated)
  ELSE IoTo(sd, roomId, event, ToAllData(us, s, event))

ToAll(s, event, roomId) ==
  /\ status[s] = "connected"
  /\ out' = ToAllOut(userSockets, sids, s, event, roomId)
  /\ last' = [event |-> event, socket |-> s, data |-> [roomId |-> roomId]]
  /\ pre' = Snapshot
  /\ UNCHANGED <<status, userSockets, rooms, sids, joined, everJoined>>

ChatMessage(s, roomId) == ToAll(s, "chat-message", roomId)
RoomMessage(s, roomId) == ToAll(s, "room-message", roomId)

\* socket.on('media-state-change' | 'screen-share-start' | 'screen-share-stop'):
\* socket.to(roomId).emit
ToOthersData(us, s, event) ==
  IF event = "screen-share-start"
  THEN [socketId |-> s, userId |-> us[s].userId, userName |-> us[s].userName]
  ELSE [socketId |-> s, userId |-> us[s].userId]

\* mutant: a sender without a registry entry is relayed too
ToOthersOutUnregistered(us, sd, s, event, roomId) ==
  SocketTo(sd, s, roomId, event,
           IF s \in DOMAIN us THEN ToOthersData(us, s, event) ELSE [socketId |-> s])

ToOthersOut(us, sd, s, event, roomId) ==
  IF s \notin DOMAIN us
  THEN EmptyBag
  ELSE SocketTo(sd, s, roomId, event, ToOthersData(us, s, event))

\* mutant: the handler records the room the message names
ToOthersRecording(s, event, roomId) ==
  /\ status[s] = "connected"
  /\ out' = ToOthersOut(userSockets, sids, s, event, roomId)
  /\ userSockets' = IF s \in DOMAIN userSockets
                    THEN MapSet(userSockets, s,
                                [userId |-> userSockets[s].userId,
                                 userName |-> userSockets[s].userName,
                                 role |-> userSockets[s].role,
                                 roomId |-> roomId])
                    ELSE userSockets
  /\ last' = [event |-> event, socket |-> s, data |-> [roomId |-> roomId]]
  /\ pre' = Snapshot
  /\ UNCHANGED <<status, rooms, sids, joined, everJoined>>

ToOthers(s, event, roomId) ==
  /\ status[s] = "connected"
  /\ out' = ToOthersOut(userSockets, sids, s, event, roomId)
  /\ last' = [event |-> event, socket |-> s, data |-> [roomId |-> roomId]]
  /\ pre' = Snapshot
  /\ UNCHANGED <<status, userSockets, rooms, sids, joined, everJoined>>

MediaStateChange(s, roomId) == ToOthers(s, "media-state-change", roomId)
ScreenShareStart(s, roomId) == ToOthers(s, "screen-share-start", roomId)
ScreenShareStop(s, roomId) == ToOthers(s, "screen-share-stop", roomId)

\* A socket's id is made up by the server when the socket connects: the ids a
\* client can write into a message are room names and the ids of sockets
\* that have connected.
Known(S) == {x \in S : x \in Conns => status[x] # "idle"}

\* every handler, for the sockets of C, the room ids of R and the users of U
NextOver(C, R, U) ==
  \/ \E s \in C : Connection(s)
  \/ \E s \in C, d \in AuthData(Known(R), U) : Authenticate(s, d)
  \/ \E s \in C, d \in JoinData(Known(R), U) : JoinRoom(s, d)
  \/ \E s \in C, r \in Known(R) : LeaveRoom(s, r)
  \/ \E s \in C : Disconnect(s)
  \/ \E s \in C, d \in P2PInputs(Known(C), Known(R)) : Offer(s, d)
  \/ \E s \in C, d \in P2PInputs(Known(C), Known(R)) : Answer(s, d)
  \/ \E s \in C, d \in P2PInputs(Known(C), Known(R)) : IceCandidate(s, d)
  \/ \E s \in C, r \in Known(R) : ChatMessage(s, r)
  \/ \E s \in C, r \in Known(R) : RoomMessage(s, r)
  \/ \E s \in C, r \in Known(R) : MediaStateChange(s, r)
  \/ \E s \in C, r \in Known(R) : ScreenShareStart(s, r)
  \/ \E s \in C, r \in Known(R) : ScreenShareStop(s, r)

Next == NextOver(Conns, RoomIds, Users)

\* the whole relay
Spec == Init /\ [][Next]_vars

\* every socket, room names that are no socket's id, one asserted identity
SpecRoom == Init /\ [][NextOver(Conns, RoomNames, 1..1)]_vars

\* room ids that are also socket ids, with one socket fewer
SpecSharedIds == Init /\ [][NextOver(1..(NumConns - 1), RoomIds, 1..1)]_vars

\* two sockets, one room name, every asserted identity
SpecIdentity == Init /\ [][NextOver(1..(NumConns - 1), RoomNames, Users)]_vars

\* two sockets, two room names that are no socket's id, one asserted identity
SpecTwoRooms ==
  Init /\ [][NextOver(1..(NumConns - 1), RoomNames \cup {OtherRoom}, 1..1)]_vars

\* two sockets, one room name, one asserted identity, and messages that
\* lack the roomId or, for join-room, the whole payload
SpecMalformed ==
  Init /\ [][\/ NextOver(1..(NumConns - 1), RoomNames \cup {Undefined}, 1..1)
             \/ \E s \in 1..(NumConns - 1) : JoinRoom(s, NoPayload)]_vars

\* two sockets, one room name, one asserted identity, and every connection
\* ends: socket.io emits 'disconnect' for each socket once its transport
\* closes or its heartbeat times out, and the event loop runs the handler.
\* A socket id is never given to a second connection.
SpecReclaim ==
  /\ Init
  /\ [][NextOver(1..(NumConns - 1), RoomNames, 1..1)]_vars
  /\ \A s \in 1..(NumConns - 1) : WF_vars(Disconnect(s))

\* ----------------------------------------------------------------- claims
\* the member set of room r in directory rm (empty when rm has no room r)
Members(rm, r) == IF r \in DOMAIN rm THEN DOMAIN rm[r].participants ELSE {}

\* the distinct messages of event ev the last handler delivered to socket c
MsgsTo(c, ev) == {m \in BagToSet(out) : m.to = c /\ m.event = ev}

\* the last handler delivered exactly one message of event ev to socket c
ExactlyOne(c, ev) ==
  /\ Cardinality(MsgsTo(c, ev)) = 1
  /\ \A m \in MsgsTo(c, ev) : CopiesIn(m, out) = 1

\* C1: in every reachable state a room id is in the directory if and only if
\* its member set is non-empty; the directory never holds an empty room.
C1_NoEmptyRoom ==
  \A r \in RoomIds : r \in DOMAIN rooms <=> Members(rooms, r) # {}

\* C1 witness: the last member of a room left and the room was removed.
C1_Witness ==
  /\ last.event \in {"leave-room", "disconnect"}
  /\ \E r \in DOMAIN pre.rooms :
       /\ Members(pre.rooms, r) = {last.socket}
       /\ r \notin DOMAIN rooms

\* C2: once every connection that joined room R has sent leave-room for R or
\* disconnected, R is absent from the directory.
C2_RoomGoneWhenAllLeft ==
  \A r \in RoomIds : joined[r] = {} => r \notin DOMAIN rooms

\* C3: the participants list of the room-joined reply to a joining socket is
\* exactly the member records the room held before the join, minus the
\* joiner's own; the reply is delivered once.
C3_JoinSnapshot ==
  last.event = "join-room" =>
    LET s == last.socket
        r == last.data.roomId
    IN  /\ ExactlyOne(s, "room-joined")
        /\ \A m \in MsgsTo(s, "room-joined") :
             /\ m.data.participants =
                  {pre.rooms[r].participants[k] : k \in Members(pre.rooms, r) \ {s}}
             /\ \A q \in m.data.participants : q.socketId # s

\* C3 witness: a socket joined a room that held two other members.
C3_Witness ==
  /\ last.event = "join-room"
  /\ Cardinality(Members(pre.rooms, last.data.roomId) \ {last.socket}) = 2
  /\ \E m \in MsgsTo(last.socket, "room-joined") :
       Cardinality(m.data.participants) = 2

\* C3 witness: a socket joined again a room it already was a member of.
C3_WitnessRejoin ==
  /\ last.event = "join-room"
  /\ last.socket \in Members(pre.rooms, last.data.roomId)
  /\ Cardinality(Members(pre.rooms, last.data.roomId)) = 2

\* C4: when a socket joins room R, every other current member of R receives
\* exactly one user-joined event naming the joiner, and the joiner none.
C4_UserJoinedToOthers ==
  last.event = "join-room" =>
    LET s == last.socket
        r == last.data.roomId
    IN  /\ \A c \in Members(rooms, r) \ {s} :
             /\ ExactlyOne(c, "user-joined")
             /\ \A m \in MsgsTo(c, "user-joined") : m.data.socketId = s
        /\ MsgsTo(s, "user-joined") = {}

P2PEvents == {"offer", "answer", "ice-candidate"}
RoomBroadcastEvents ==
  {"chat-message", "media-state-change", "screen-share-start", "screen-share-stop"}

\* C5: an offer, answer or ice-candidate whose target is connection T is
\* delivered to T only.
C5_OnlyToTarget ==
  (/\ last.event \in P2PEvents
   /\ last.data.targetSocketId \in Conns
   /\ status[last.data.targetSocketId] = "connected") =>
    \A m \in BagToSet(out) :
      m.event = last.event => m.to = last.data.targetSocketId

\* C6: every delivered offer, answer or ice-candidate carries the socket id
\* of the socket that sent it, whatever the payload says.
C6_TrueSenderTag ==
  last.event \in P2PEvents =>
    \A m \in BagToSet(out) :
      m.event = last.event => m.data.socketId = last.socket

\* C6 witness: a payload naming another socket as its sender was forwarded
\* to a third socket.
C6_Witness ==
  /\ last.event = "offer"
  /\ last.data.payload # last.socket
  /\ \E m \in BagToSet(out) :
       /\ m.event = "offer"
       /\ m.data.payload = last.data.payload
       /\ m.to \notin {last.socket, last.data.payload}

\* C7: a chat-message a member of room R sends into R is delivered exactly
\* once to every current member of R, the sender included.
C7_ChatToEveryMember ==
  (last.event = "chat-message" /\ last.socket \in Members(rooms, last.data.roomId)) =>
    \A c \in Members(rooms, last.data.roomId) : ExactlyOne(c, "chat-message")

\* C8: an offer, answer or ice-candidate naming a room id absent from the
\* directory is answered with an error to the sender, is forwarded to no
\* connection, and leaves registry and directory unchanged.
C8_P2PUnknownRoom ==
  (last.event \in P2PEvents /\ last.data.roomId \notin DOMAIN pre.rooms) =>
    /\ out = SetToBag({Msg(last.socket, "error", RoomNotFound)})
    /\ rooms = pre.rooms
    /\ userSockets = pre.userSockets

\* C8 witness: the room was absent while another room existed and the target
\* was a connected socket other than the sender.
C8_Witness ==
  /\ last.event = "answer"
  /\ last.data.roomId \notin DOMAIN pre.rooms
  /\ DOMAIN pre.rooms # {}
  /\ last.data.targetSocketId \in Conns \ {last.socket}
  /\ last.data.targetSocketId \in InRoom(sids, last.data.targetSocketId)
  /\ out # EmptyBag

\* C9: a chat-message, media-state-change, screen-share-start or
\* screen-share-stop naming a room id absent from the directory is answered
\* with a room-not-found error to the sender and delivered to no connection.
\* (Stated for an error event of any message text.)
C9_BroadcastUnknownRoom ==
  (last.event \in RoomBroadcastEvents /\ last.data.roomId \notin DOMAIN pre.rooms) =>
    /\ ExactlyOne(last.socket, "error")
    /\ \A m \in BagToSet(out) : m.to = last.socket /\ m.event = "error"

\* C10: from a state in which socket c is a member of room r, disconnect of
\* c and leave-room of c for r leave the same member set of r, the same
\* existence of r, and deliver the same user-left notifications.
C10_DisconnectLikeLeave ==
  \A c \in Conns, r \in RoomIds :
    (status[c] = "connected" /\ c \in Members(rooms, r)) =>
      LET byLeave == RoomsAfterLeave(rooms, c, r)
          byClose == RoomsAfterDisconnect(rooms, userSockets, c)
      IN  /\ Members(byLeave, r) = Members(byClose, r)
          /\ (r \in DOMAIN byLeave) = (r \in DOMAIN byClose)
          /\ LeaveOut(rooms, userSockets, sids, c, r)
               = DisconnectOut(rooms, userSockets, sids, c)

\* C11: a leave-room for room R from a socket that is no member of R changes
\* neither the directory nor the registry and delivers no message to any
\* connection.
C11_LeaveByNonMemberNoOp ==
  (/\ last.event = "leave-room"
   /\ last.socket \notin Members(pre.rooms, last.data.roomId)) =>
    /\ rooms = pre.rooms
    /\ userSockets = pre.userSockets
    /\ out = EmptyBag

\* C12: after leave-room of a socket for room R has been processed, the
\* registry holds no room assignment for that socket.  (Stated for the
\* leave-room of a member of R.)
C12_LeaveClearsAssignment ==
  (/\ last.event = "leave-room"
   /\ last.socket \in Members(pre.rooms, last.data.roomId)) =>
    ~HasRecordedRoom(userSockets, last.socket)

\* C13: disconnect of a socket that never joined a room (authenticated or
\* not) delivers no error and no notification; every disconnect leaves the
\* socket without a registry entry; and running the disconnect handler a
\* second time changes neither directory, registry nor adapter and delivers
\* nothing.
C13_DisconnectSafeIdempotent ==
  last.event = "disconnect" =>
    LET s == last.socket
    IN  /\ s \notin everJoined => out = EmptyBag
        /\ s \notin DOMAIN userSockets
        /\ RoomsAfterDisconnect(rooms, userSockets, s) = rooms
        /\ MapDelete(userSockets, s) = userSockets
        /\ SidsOnClose(sids, s) = sids
        /\ DisconnectOut(rooms, userSockets, sids, s) = EmptyBag

\* C14: every authenticate, in whatever state it is processed, leaves the
\* asserted userId, userName and role in the socket's registry entry and is
\* answered with one authenticated {success: true} to the caller, never with
\* an error.
C14_AuthenticateAlwaysSucceeds ==
  last.event = "authenticate" =>
    LET s == last.socket
    IN  /\ s \in DOMAIN userSockets
        /\ userSockets[s].userId = last.data.userId
        /\ userSockets[s].userName = last.data.userName
        /\ userSockets[s].role = last.data.role
        /\ ExactlyOne(s, "authenticated")
        /\ \A m \in MsgsTo(s, "authenticated") : m.data.success = TRUE
        /\ MsgsTo(s, "error") = {}

\* C14 witness: a socket that had joined a room under one identity
\* authenticated under another.
C14_Witness ==
  /\ last.event = "authenticate"
  /\ last.socket \in DOMAIN pre.userSockets
  /\ last.socket \in Members(pre.rooms, 0)
  /\ pre.userSockets[last.socket].userId # last.data.userId
  /\ pre.userSockets[last.socket].role # last.data.role
  /\ userSockets[last.socket].userId = last.data.userId

\* C15: authenticate leaves the caller's recorded room assignment, every
\* room and every other socket's registry entry as they were, and delivers
\* nothing but the acknowledgment to the caller.  (Stated for the message the
\* client sends, which carries no roomId, from a member of its recorded room.)
C15_AuthenticateFrame ==
  (/\ last.event = "authenticate"
   /\ last.data.roomId = Undefined
   /\ HasRecordedRoom(pre.userSockets, last.socket)
   /\ last.socket \in Members(pre.rooms, pre.userSockets[last.socket].roomId)) =>
    LET s == last.socket
    IN  /\ userSockets[s].roomId = pre.userSockets[s].roomId
        /\ rooms = pre.rooms
        /\ DOMAIN userSockets = DOMAIN pre.userSockets
        /\ \A c \in DOMAIN userSockets \ {s} : userSockets[c] = pre.userSockets[c]
        /\ out = SocketEmit(s, "authenticated", [success |-> TRUE])

\* C16: in every reachable state each connected socket is in the member set
\* of at most one room.
C16_AtMostOneRoom ==
  \A c \in Conns :
    status[c] = "connected" =>
      Cardinality({r \in DOMAIN rooms : c \in Members(rooms, r)}) <= 1

\* the room the last handler took its socket out of, if it was a leave
LeftRoom ==
  IF last.event = "leave-room" THEN last.data.roomId
  ELSE pre.userSockets[last.socket].roomId

C18_SnapshotUnderInterleaving ==
  last.event = "join-room" =>
    LET s == last.socket
        r == last.data.roomId
    IN  \A m \in MsgsTo(s, "room-joined") :
          LET snapshot == {q.socketId : q \in m.data.participants}
          IN  /\ \A c \in snapshot : status[c] = "connected" /\ c \in joined[r]
              /\ Members(pre.rooms, r) \ {s} \subseteq snapshot

\* C19: when two sockets join a room that does not exist, in either
\* processing order, the first join creates the room, the second finds it
\* and does not set it up again, and both sockets are members afterwards.
\* Checked on every join that was processed (it keeps every member record
\* the room held and adds the joiner) and, in every state, on both orders of
\* two joins into a room that does not exist.
C19_ConcurrentJoinsBothKept ==
  /\ last.event = "join-room" =>
       LET s == last.socket
           r == last.data.roomId
       IN  /\ Members(rooms, r) = Members(pre.rooms, r) \cup {s}
           /\ \A c \in Members(pre.rooms, r) \ {s} :
                rooms[r].participants[c] = pre.rooms[r].participants[c]
           /\ \A q \in DOMAIN pre.rooms \ {r} : rooms[q] = pre.rooms[q]
  /\ \A r \in AllRoomIds \ DOMAIN rooms, a, b \in Conns :
       \A da, db \in JoinData({r}, Users) :
         (a # b /\ status[a] = "connected" /\ status[b] = "connected") =>
           LET first == RoomsAfterJoin(rooms, a, da)
               ab == RoomsAfterJoin(first, b, db)
               ba == RoomsAfterJoin(RoomsAfterJoin(rooms, b, db), a, da)
           IN  /\ Members(first, r) = {a}
               /\ RoomsWithRoom(first, r) = first
               /\ Members(ab, r) = {a, b}
               /\ Members(ba, r) = {a, b}
               /\ ab[r].encryption = ba[r].encryption

\* C19 witness: a socket joined a room that another socket had created and
\* was the only member of, and both are members now.
C19_Witness ==
  /\ last.event = "join-room"
  /\ Cardinality(Members(pre.rooms, last.data.roomId) \ {last.socket}) = 1
  /\ Cardinality(Members(rooms, last.data.roomId)) = 2
  /\ Members(pre.rooms, last.data.roomId) = joined[last.data.roomId] \ {last.socket}

\* C20: once the disconnect of a socket has been processed (no message of a
\* closed socket is processed after it), the socket has no registry entry and
\* is in no room's member set, whatever messages of it were processed before.
C20_DisconnectLeavesNothing ==
  \A c \in Conns :
    status[c] = "closed" =>
      /\ c \notin DOMAIN userSockets
      /\ \A r \in DOMAIN rooms : c \notin Members(rooms, r)

\* C21: a join-room whose payload carries no roomId is answered with an
\* error to the sender, creates no room and adds the sender to no member set.
C21_JoinWithoutRoomId ==
  (/\ last.event = "join-room"
   /\ last.data # NoPayload
   /\ last.data.roomId = Undefined) =>
    /\ ExactlyOne(last.socket, "error")
    /\ DOMAIN rooms = DOMAIN pre.rooms
    /\ \A r \in DOMAIN rooms : Members(rooms, r) = Members(pre.rooms, r)

\* C22: whenever a handler answers with an error, every message it
\* delivers goes to the sender of the message it processed, the sender stays
\* connected, and the registry and every room are as they were before.
C22_ErrorsAreLocal ==
  (\E m \in BagToSet(out) : m.event = "error") =>
    /\ \A m \in BagToSet(out) : m.to = last.socket
    /\ status[last.socket] = "connected"
    /\ userSockets = pre.userSockets
    /\ rooms = pre.rooms
    /\ sids = pre.sids

\* C22 witness: a join-room without payload from a room member was answered
\* with an error while another socket was a member of the same room.
C22_Witness ==
  /\ last.event = "join-room"
  /\ last.data = NoPayload
  /\ ExactlyOne(last.socket, "error")
  /\ \E r \in DOMAIN rooms :
       /\ last.socket \in Members(rooms, r)
       /\ Members(rooms, r) \ {last.socket} # {}

\* C23: the scenario, step by step, for any two sockets c1, c2 and room r.
\* (1) c1 joins r from an empty directory: room-joined with no participants.
\* (2) c2 joins r, whose only member is c1, just joined: c2's room-joined
\*     holds exactly c1's record and c1 receives user-joined for c2.
\* (3) c1, recorded in r, disconnects while r holds c1 and c2: c2 receives
\*     user-left for c1 and r stays with member set {c2}.
\* (4) c2 sends leave-room for r, whose only member it is: r is removed.
C23_Scenario ==
  \A c1, c2 \in Conns, r \in RoomIds :
    c1 # c2 =>
      /\ (/\ last.event = "join-room" /\ last.socket = c1
          /\ last.data.roomId = r /\ pre.rooms = EmptyMap) =>
           /\ ExactlyOne(c1, "room-joined")
           /\ \A m \in MsgsTo(c1, "room-joined") :
                m.data.roomId = r /\ m.data.participants = {}
           /\ Members(rooms, r) = {c1}
      /\ (/\ last.event = "join-room" /\ last.socket = c2
          /\ last.data.roomId = r
          /\ DOMAIN pre.rooms = {r} /\ Members(pre.rooms, r) = {c1}
          /\ r \in pre.sids[c1]) =>
           /\ ExactlyOne(c2, "room-joined")
           /\ \A m \in MsgsTo(c2, "room-joined") :
                /\ m.data.participants = {pre.rooms[r].participants[c1]}
                /\ \A q \in m.data.participants : q.socketId = c1
           /\ ExactlyOne(c1, "user-joined")
           /\ \A m \in MsgsTo(c1, "user-joined") : m.data.socketId = c2
           /\ Members(rooms, r) = {c1, c2}
      /\ (/\ last.event = "disconnect" /\ last.socket = c1
          /\ Members(pre.rooms, r) = {c1, c2}
          /\ HasRecordedRoom(pre.userSockets, c1)
          /\ pre.userSockets[c1].roomId = r
          /\ r \in pre.sids[c2]) =>
           /\ ExactlyOne(c2, "user-left")
           /\ \A m \in MsgsTo(c2, "user-left") : m.data.socketId = c1
           /\ r \in DOMAIN rooms
           /\ Members(rooms, r) = {c2}
      /\ (/\ last.event = "leave-room" /\ last.socket = c2
          /\ last.data.roomId = r
          /\ Members(pre.rooms, r) = {c2}) =>
           r \notin DOMAIN rooms

\* C23 witness: the end of the scenario: both sockets had joined, c1 is
\* closed, and the leave-room of c2, the only member left, emptied the
\* directory.
C23_Witness ==
  \E c1, c2 \in Conns :
    /\ c1 # c2
    /\ {c1, c2} \subseteq everJoined
    /\ status[c1] = "closed"
    /\ status[c2] = "connected"
    /\ last.event = "leave-room"
    /\ last.socket = c2
    /\ Members(pre.rooms, last.data.roomId) = {c2}
    /\ DOMAIN pre.rooms = {last.data.roomId}
    /\ rooms = EmptyMap

\* C24: a join-room from a socket that is a member of the room already
\* leaves the room's member set and the directory's key set as they were;
\* and, in every state, a second join of the same socket into the same room
\* gives the member set and key set of the first.
C24_RejoinIdempotent ==
  /\ (/\ last.event = "join-room"
      /\ last.socket \in Members(pre.rooms, last.data.roomId)) =>
       /\ Members(rooms, last.data.roomId) = Members(pre.rooms, last.data.roomId)
       /\ DOMAIN rooms = DOMAIN pre.rooms
       /\ \A r \in DOMAIN rooms : Members(rooms, r) = Members(pre.rooms, r)
  /\ \A s \in Conns, d1, d2 \in JoinData(RoomIds, Users) :
       (status[s] = "connected" /\ d1.roomId = d2.roomId) =>
         LET once == RoomsAfterJoin(rooms, s, d1)
             twice == RoomsAfterJoin(once, s, d2)
         IN  /\ DOMAIN twice = DOMAIN once
             /\ \A r \in DOMAIN once : Members(twice, r) = Members(once, r)

\* C24 witness: a socket joined again, under another identity, a room it
\* shared with another member.
C24_Witness ==
  /\ last.event = "join-room"
  /\ last.socket \in Members(pre.rooms, last.data.roomId)
  /\ Cardinality(Members(pre.rooms, last.data.roomId)) = 2
  /\ pre.rooms[last.data.roomId].participants[last.socket].userId # last.data.userId
  /\ Cardinality(Members(rooms, last.data.roomId)) = 2

ToOthersEvents == {"media-state-change", "screen-share-start", "screen-share-stop"}

\* C25: a media-state-change, screen-share-start or screen-share-stop a
\* member of room R sends into R is delivered exactly once to every other
\* current member of R and not to the sender.
C25_ToOthersReachesMembers ==
  (/\ last.event \in ToOthersEvents
   /\ last.socket \in Members(rooms, last.data.roomId)) =>
    /\ \A c \in Members(rooms, last.data.roomId) \ {last.socket} :
         /\ ExactlyOne(c, last.event)
         /\ \A m \in MsgsTo(c, last.event) : m.data.socketId = last.socket
    /\ MsgsTo(last.socket, last.event) = {}

\* C27: when a member of room R leaves R by leave-room, or disconnects,
\* every other member of R receives exactly one user-left naming it, and it
\* receives none itself.
C27_UserLeftToRemaining ==
  \A r \in DOMAIN pre.rooms :
    (/\ last.event \in {"leave-room", "disconnect"}
     /\ last.event = "leave-room" => last.data.roomId = r
     /\ last.socket \in Members(pre.rooms, r)) =>
      /\ \A c \in Members(pre.rooms, r) \ {last.socket} :
           /\ ExactlyOne(c, "user-left")
           /\ \A m \in MsgsTo(c, "user-left") : m.data.socketId = last.socket
      /\ MsgsTo(last.socket, "user-left") = {}

\* C26: after a join-room of socket C for room R, C is in R's member set and
\* the registry records R for C; the other member records of R and R's
\* encryption record are as before the join.
C26_JoinRecorded ==
  (last.event = "join-room" /\ last.data # NoPayload) =>
    LET s == last.socket
        r == last.data.roomId
    IN  /\ s \in Members(rooms, r)
        /\ s \in DOMAIN userSockets
        /\ userSockets[s].roomId = r
        /\ r \in DOMAIN pre.rooms =>
             /\ Members(rooms, r) \ {s} = Members(pre.rooms, r) \ {s}
             /\ \A c \in Members(pre.rooms, r) \ {s} :
                  rooms[r].participants[c] = pre.rooms[r].participants[c]
             /\ rooms[r].encryption = pre.rooms[r].encryption

\* C26 witness: a socket whose registry entry recorded no room joined a room
\* that held another member.
C26_Witness ==
  /\ last.event = "join-room"
  /\ last.socket \in DOMAIN pre.userSockets
  /\ ~HasRecordedRoom(pre.userSockets, last.socket)
  /\ Members(pre.rooms, last.data.roomId) \ {last.socket} # {}
  /\ userSockets[last.socket].roomId = last.data.roomId

RelayEvents == P2PEvents \cup {"chat-message", "room-message"} \cup ToOthersEvents

\* C28: an offer, answer, ice-candidate, chat-message, room-message,
\* media-state-change, screen-share-start or screen-share-stop leaves the
\* directory and the registry unchanged; a room appears in the directory
\* only by a join-room for it, and disappears only by a leave-room or
\* disconnect of its last member.
C28_RelayKeepsState ==
  /\ last.event \in RelayEvents =>
       rooms = pre.rooms /\ userSockets = pre.userSockets
  /\ \A r \in DOMAIN rooms \ DOMAIN pre.rooms :
       last.event = "join-room" /\ last.data.roomId = r
  /\ \A r \in DOMAIN pre.rooms \ DOMAIN rooms :
       /\ last.event \in {"leave-room", "disconnect"}
       /\ Members(pre.rooms, r) = {last.socket}

\* C28 witness: a registered socket's screen-share-start for a room that is
\* not the one its registry entry records was delivered to a member.
C28_Witness ==
  /\ last.event = "screen-share-start"
  /\ last.socket \in DOMAIN userSockets
  /\ userSockets[last.socket].roomId # last.data.roomId
  /\ last.data.roomId \in DOMAIN rooms
  /\ \E c \in Members(rooms, last.data.roomId) : MsgsTo(c, "screen-share-start") # {}

\* C29: whenever the room an offer, answer or ice-candidate names exists,
\* the message is delivered, once and tagged with the sender, to the
\* connected socket it names as target, whether or not sender and target are
\* members of that room.
C29_NoMembershipCheck ==
  (/\ last.event \in P2PEvents
   /\ last.data.roomId \in DOMAIN pre.rooms
   /\ last.data.targetSocketId \in Conns \ {last.socket}
   /\ status[last.data.targetSocketId] = "connected") =>
    /\ ExactlyOne(last.data.targetSocketId, last.event)
    /\ \A m \in MsgsTo(last.data.targetSocketId, last.event) :
         m.data = P2PData(last.socket, last.data)
    /\ MsgsTo(last.socket, "error") = {}

\* C30: in every reachable state every socket in a room's member set is
\* connected: no member record outlives the disconnect of its socket.
C30_MembersAreConnected ==
  \A r \in DOMAIN rooms : \A c \in Members(rooms, r) : status[c] = "connected"

\* C31: in every reachable state, a connection in the member set of room R
\* has a registry entry, and that entry records R as its room.
C31_MemberHasRecordedRoom ==
  \A r \in DOMAIN rooms : \A c \in Members(rooms, r) :
    /\ c \in DOMAIN userSockets
    /\ userSockets[c].roomId = r

\* C32: when every connection eventually disconnects and every disconnect is
\* processed, the room directory eventually becomes empty and stays empty.
C32_RoomsReclaimed == <>[](rooms = EmptyMap)

\* the sockets the last handler delivered a message of event ev to
Receivers(ev) == {c \in Conns : MsgsTo(c, ev) # {}}

\* C33: for every join of a socket into a room, the sockets that receive the
\* user-joined event for the joiner are exactly the sockets whose ids the
\* participants snapshot of its room-joined reply lists.
C33_NotifiedAreSnapshot ==
  (last.event = "join-room" /\ last.data # NoPayload) =>
    \A m \in MsgsTo(last.socket, "room-joined") :
      Receivers("user-joined") = {q.socketId : q \in m.data.participants}

\* C34: a socket that joined a room whose identifier equals the socket id of
\* another socket T does not receive the offer, answer or ice-candidate
\* messages addressed to T.
C34_RoomIdIsNoSocketId ==
  last.event \in P2PEvents =>
    LET t == last.data.targetSocketId
    IN  \A c \in Conns \ {t} :
          (t \in Conns \cap RoomKeys /\ c \in joined[t]) =>
            MsgsTo(c, last.event) = {}

\* the events a handler emits for a room, and the handlers that emit them
RoomEvents ==
  {"chat-message", "room-message", "user-joined", "user-left"} \cup ToOthersEvents
RoomHandlers ==
  {"chat-message", "room-message", "join-room", "leave-room", "disconnect"}
    \cup ToOthersEvents

\* the room the last handler emitted for: the one its message names or, for
\* a disconnect, the one the registry recorded for the socket
EmittedFor ==
  IF last.event # "disconnect" THEN last.data.roomId
  ELSE IF HasRecordedRoom(pre.userSockets, last.socket)
       THEN pre.userSockets[last.socket].roomId
       ELSE Undefined

\* C35: a chat-message, room-message, media-state-change, screen-share-start,
\* screen-share-stop, user-joined or user-left event emitted for room R is
\* delivered only to sockets that are members of R when it is processed; a
\* socket that left R or is only in another room does not receive it.
C35_OnlyToMembers ==
  (last.event \in RoomHandlers /\ last.data # NoPayload) =>
    \A c \in Conns, ev \in RoomEvents :
      MsgsTo(c, ev) # {} => c \in Members(rooms, EmittedFor)

\* C36: when a socket that joined room R and then left it by leave-room,
\* other members remaining, disconnects without having joined again, the
\* members of R receive no user-left for it on the disconnect: the one sent
\* on its leave-room is the only one.
C36_OneUserLeftInTotal ==
  \A r \in DOMAIN pre.rooms :
    (/\ last.event = "disconnect"
     /\ last.socket \in everJoined
     /\ last.socket \notin Members(pre.rooms, r)) =>
      \A c \in Members(rooms, r) :
        {m \in MsgsTo(c, "user-left") : m.data.socketId = last.socket} = {}

\* C37: a socket that is not a member of room R cannot cause a chat-message,
\* room-message, media-state-change, screen-share-start, screen-share-stop
\* or user-left event to be delivered to a member of R.
C37_NonMemberCannotBroadcast ==
  (/\ last.event \in RoomHandlers \ {"join-room"}
   /\ last.socket \notin Members(pre.rooms, EmittedFor)) =>
    \A c \in Members(pre.rooms, EmittedFor), ev \in RoomEvents \ {"user-joined"} :
      MsgsTo(c, ev) = {}

\* C38: a chat-message, room-message, media-state-change, screen-share-start
\* or screen-share-stop from a socket without a registry entry, that is, one
\* that has neither authenticated nor joined a room, is delivered to no
\* socket: the first two are answered with one "Not authenticated" error to
\* the sender alone, the other three produce no message at all.
C38_UnregisteredSender ==
  /\ \A s \in everJoined : status[s] = "connected" => s \in DOMAIN userSockets
  /\ (/\ last.event \in {"chat-message", "room-message"} \cup ToOthersEvents
      /\ last.socket \notin DOMAIN pre.userSockets) =>
       IF last.event \in ToOthersEvents
       THEN out = EmptyBag
       ELSE /\ ExactlyOne(last.socket, "error")
            /\ \A m \in BagToSet(out) :
                 /\ m.to = last.socket
                 /\ m.event = "error"
                 /\ m.data = NotAuthenticated

\* C38 witness: a socket without a registry entry sent a chat-message naming
\* a room that has a connected member, and alone received an error.
C38_Witness ==
  /\ last.event = "chat-message"
  /\ last.socket \notin DOMAIN userSockets
  /\ \E c \in Members(rooms, last.data.roomId) : last.data.roomId \in sids[c]
  /\ MsgsTo(last.socket, "error") # {}

\* C38 witness: a socket without a registry entry sent a media-state-change
\* naming a room that has a connected member, and nothing was sent.
C38_WitnessDropped ==
  /\ last.event = "media-state-change"
  /\ last.socket \notin DOMAIN userSockets
  /\ \E c \in Members(rooms, last.data.roomId) : last.data.roomId \in sids[c]
  /\ out = EmptyBag
====
